---- MODULE Spec2Model ----
(***************************************************************************)
(* A model of the mdio crate: the bit-banged MDIO transport (src/bb.rs)    *)
(* and the MIIM register layer (src/miim.rs).                              *)
(*                                                                         *)
(* A call of read/write is a blocking sequence of operations on the three  *)
(* collaborators (data pin mdio, clock pin mdc, timer clk).  No control    *)
(* flow of the transport depends on a value it reads, only on failure      *)
(* (the ? operator), so every function of bb.rs is modelled by the         *)
(* sequence of collaborator operations its body performs, and the actions  *)
(* below execute that sequence one operation at a time.                    *)
(***************************************************************************)
EXTENDS Integers, Sequences, FiniteSets, TLC

VARIABLES
    layer,      \* "none" | "mdio" | "miim": the trait through which the call was made
    kind,       \* "idle" | "read" | "write" | "write_u8" | "write_bits": the call in progress (or last returned)
    args,       \* the call's arguments [phy_addr, reg_addr, ctrl_bits, data_bits], or [byte, count]
    prog,       \* collaborator operations the call has still to perform
    trace,      \* collaborator operations the call has performed, in order
    sensed,     \* the levels mdio.is_high() returned during the call, in order
    ret,        \* the call's result [tag, val, err]
    mdc,        \* level of the clock line
    mdio,       \* level last driven on the data line by the transport
    dev,        \* the mock remote device [reg, shift, edges]
    prev,       \* tag of the result of the previous call ("Idle" before any)
    timerErrAt, \* position in trace of the first wait on which the timer reported an error, 0 if none
    pinErr,     \* the error the failing pin operation of this call returned, "none" if none failed
    blocked,    \* TRUE while the wait in progress has answered WouldBlock at least once
    compose     \* inputs and outputs of the control-word composition [phy_addr, reg_addr, rd, wr, done]

vars == <<layer, kind, args, prog, trace, sensed, ret, mdc, mdio, dev, prev, timerErrAt, pinErr, blocked, compose>>

-----------------------------------------------------------------------------
(* Bounds of the model: how many of the sample inputs below are used.      *)

NumCtrl == 2
NumData == 2
NumAddr == 1
\* the largest count given to write_bits
MaxCount == 9

\* 0x6088 = read_ctrl_bits(1, 2), 0x508A = write_ctrl_bits(1, 2), 0xA5C3, 0xFFFF, 0x0000
CtrlSample == <<24712, 20618, 42435, 65535, 0>>
\* 0xB00F, 0x1234, 0x8001, 0xFFFF, 0x0000
DataSample == <<45071, 4660, 32769, 65535, 0>>
\* pairs of a device address and a register address, some wider than 5 bits
PhySample == <<1, 227, 31, 0>>
RegSample == <<2, 252, 31, 0>>

Min(a, b) == IF a < b THEN a ELSE b

CtrlWords == {CtrlSample[i] : i \in 1..Min(NumCtrl, Len(CtrlSample))}
DataWords == {DataSample[i] : i \in 1..Min(NumData, Len(DataSample))}
AddrPairs == {<<PhySample[i], RegSample[i]>> : i \in 1..Min(NumAddr, Len(PhySample))}
Errors    == {"E1", "E2"}

-----------------------------------------------------------------------------
(* Fixed-width integer operations of the source.                           *)

RECURSIVE BitAnd(_, _)
BitAnd(x, y) ==
    IF x = 0 \/ y = 0 THEN 0
    ELSE (x % 2) * (y % 2) + 2 * BitAnd(x \div 2, y \div 2)

RECURSIVE BitOr(_, _)
BitOr(x, y) ==
    IF x = 0 THEN y
    ELSE IF y = 0 THEN x
    ELSE (IF x % 2 = 1 \/ y % 2 = 1 THEN 1 ELSE 0) + 2 * BitOr(x \div 2, y \div 2)

Shr(x, n) == x \div (2 ^ n)
Shl8(x, n) == (x * (2 ^ n)) % (2 ^ 8)
Shl16(x, n) == (x * (2 ^ n)) % (2 ^ 16)

\* u16::to_be_bytes and u16::from_be_bytes
to_be_bytes(w) == <<w \div (2 ^ 8), w % (2 ^ 8)>>
from_be_bytes(a, b) == a * (2 ^ 8) + b

-----------------------------------------------------------------------------
(* src/miim.rs: composition of the control word.                           *)

PHY_ADDR_OFFSET == 7
REG_ADDR_OFFSET == 2
READ_CTRL_BITS == 24576
WRITE_CTRL_BITS == 20482

\* mutant: the address is masked to 4 bits
phy_addr_ctrl_bits_mask4(phy_addr) == Shl16(BitAnd(phy_addr, 15), PHY_ADDR_OFFSET)

\* mutant: the address is not masked to its low 5 bits
phy_addr_ctrl_bits_unmasked(phy_addr) == Shl16(phy_addr, PHY_ADDR_OFFSET)

phy_addr_ctrl_bits(phy_addr) == Shl16(BitAnd(phy_addr, 31), PHY_ADDR_OFFSET)

\* mutant: the register field is shifted one bit too far
reg_addr_ctrl_bits_off(reg_addr) == Shl16(BitAnd(reg_addr, 31), REG_ADDR_OFFSET + 1)

reg_addr_ctrl_bits(reg_addr) == Shl16(BitAnd(reg_addr, 31), REG_ADDR_OFFSET)

read_ctrl_bits(phy_addr, reg_addr) ==
    BitOr(BitOr(READ_CTRL_BITS, phy_addr_ctrl_bits(phy_addr)), reg_addr_ctrl_bits(reg_addr))

\* mutant: the two addresses are swapped
write_ctrl_bits_swapped(phy_addr, reg_addr) ==
    BitOr(BitOr(WRITE_CTRL_BITS, phy_addr_ctrl_bits(reg_addr)), reg_addr_ctrl_bits(phy_addr))

write_ctrl_bits(phy_addr, reg_addr) ==
    BitOr(BitOr(WRITE_CTRL_BITS, phy_addr_ctrl_bits(phy_addr)), reg_addr_ctrl_bits(reg_addr))

-----------------------------------------------------------------------------
(* src/bb.rs: the operations each function of the transport performs.      *)

PREAMBLE_BITS == 32

RECURSIVE Repeat(_, _)
Repeat(s, n) == IF n <= 0 THEN <<>> ELSE s \o Repeat(s, n - 1)

\* mutant: bit_index counted from the least significant bit
bit_is_set_lsb(byte, bit_index) == BitAnd(Shr(byte, bit_index), 1) = 1

bit_is_set(byte, bit_index) == BitAnd(Shr(byte, 7 - bit_index), 1) = 1

\* mutant: bit_index counted from the least significant bit
set_bit_lsb(byte, bit_index) == BitOr(byte, Shl8(1, bit_index))

set_bit(byte, bit_index) == BitOr(byte, Shl8(1, 7 - bit_index))

wait_for_clk == <<"clk.wait">>

\* mutant: the second wait is missing
pulse_clock_nowait == wait_for_clk \o <<"mdc.set_high">> \o <<"mdc.set_low">>

\* mutant: the polarity of the pulse is inverted
pulse_clock_inverted == wait_for_clk \o <<"mdc.set_low">> \o wait_for_clk \o <<"mdc.set_high">>

pulse_clock == wait_for_clk \o <<"mdc.set_high">> \o wait_for_clk \o <<"mdc.set_low">>

\* mutant: one pulse too many
preamble_long == <<"mdio.set_high">> \o Repeat(pulse_clock, PREAMBLE_BITS + 1)

\* mutant: one pulse short
preamble_short == <<"mdio.set_high">> \o Repeat(pulse_clock, PREAMBLE_BITS - 1)

preamble == <<"mdio.set_high">> \o Repeat(pulse_clock, PREAMBLE_BITS)

write_bit(bit) == <<IF bit THEN "mdio.set_high" ELSE "mdio.set_low">> \o pulse_clock

\* for bit_offset in from..to-1 { write_bit(bit_is_set(byte, bit_offset))? }
RECURSIVE write_bit_range(_, _, _)
write_bit_range(byte, from, to) ==
    IF from >= to THEN <<>>
    ELSE write_bit(bit_is_set(byte, from)) \o write_bit_range(byte, from + 1, to)

\* mutant: the count least significant bits are written
write_bits_low(byte, count) == write_bit_range(byte, 8 - Min(count, 8), 8)

write_bits(byte, count) == write_bit_range(byte, 0, Min(count, 8))

write_u8(byte) == write_bit_range(byte, 0, 8)

\* mutant: least significant byte first
write_u16_le(bytes) == write_u8(to_be_bytes(bytes)[2]) \o write_u8(to_be_bytes(bytes)[1])

write_u16(bytes) == write_u8(to_be_bytes(bytes)[1]) \o write_u8(to_be_bytes(bytes)[2])

turnaround == pulse_clock \o pulse_clock

read_bit == <<"mdio.is_high">> \o pulse_clock

read_byte == Repeat(read_bit, 8)

read_u16 == read_byte \o read_byte

\* The byte read_byte assembles from the 8 levels its read_bit calls returned.
RECURSIVE read_byte_acc(_, _, _)
read_byte_acc(bits, bit_offset, byte) ==
    IF bit_offset >= 8 THEN byte
    ELSE read_byte_acc(bits, bit_offset + 1,
                       IF bits[bit_offset + 1] THEN set_bit(byte, bit_offset) ELSE byte)

read_byte_value(bits) == read_byte_acc(bits, 0, 0)

\* The word read_u16 returns from the 16 levels sensed.
read_u16_value(bits) ==
    from_be_bytes(read_byte_value(SubSeq(bits, 1, 8)), read_byte_value(SubSeq(bits, 9, 16)))

\* mutant: the whole second control byte is written before the turnaround
Mdio_read_full(ctrl_bits) ==
    preamble
    \o write_u8(to_be_bytes(ctrl_bits)[1])
    \o write_u8(to_be_bytes(ctrl_bits)[2])
    \o turnaround
    \o read_u16

\* impl Read for Mdio
Mdio_read(ctrl_bits) ==
    preamble
    \o write_u8(to_be_bytes(ctrl_bits)[1])
    \o write_bits(to_be_bytes(ctrl_bits)[2], 6)
    \o turnaround
    \o read_u16

\* impl Write for Mdio
Mdio_write(ctrl_bits, data_bits) ==
    preamble \o write_u16(ctrl_bits) \o write_u16(data_bits)

-----------------------------------------------------------------------------
(* Results.                                                                *)

Idle    == [tag |-> "Idle", val |-> 0, err |-> "none"]
Pending == [tag |-> "Pending", val |-> 0, err |-> "none"]
Ok(v)   == [tag |-> "Ok", val |-> v, err |-> "none"]
Err(e)  == [tag |-> "Err", val |-> 0, err |-> e]

\* mutant: the error is discarded and the call goes on
Question_ignored(rest, e) == [prog |-> rest, ret |-> IF rest = <<>> THEN Ok(0) ELSE Pending]

\* The ? operator on a failed pin operation: the rest of the call is skipped
\* and the error is returned as it is.
Question(rest, e) == [prog |-> <<>>, ret |-> Err(e)]

\* The value a call returns once its last operation has succeeded.
Completed(k, bits) == IF k = "read" THEN Ok(read_u16_value(bits)) ELSE Ok(0)

After(rest, bits) == IF rest = <<>> THEN Completed(kind, bits) ELSE Pending

-----------------------------------------------------------------------------
(* The mock remote device.  It clocks the level of the data line into a    *)
(* 16-bit shift register on every rising edge of the clock line; on the    *)
(* 64th rising edge of a write frame it latches the register (the 16 data  *)
(* bits).  On a read frame it presents the latched word on the data line,  *)
(* most significant bit first, from the first sensed position.             *)

DevClock(d, level, k) ==
    LET shifted == (d.shift * 2 + (IF level = "high" THEN 1 ELSE 0)) % (2 ^ 16)
        n == d.edges + 1
    IN  [reg   |-> IF k = "write" /\ n = 64 THEN shifted ELSE d.reg,
         shift |-> shifted,
         edges |-> n]

DevLevel == (dev.reg \div (2 ^ (15 - (Len(sensed) % 16)))) % 2 = 1

DevFrameStart(d) == [reg |-> d.reg, shift |-> 0, edges |-> 0]

-----------------------------------------------------------------------------
(* Calls.                                                                  *)

NoCompose == [phy_addr |-> 0, reg_addr |-> 0, rd |-> 0, wr |-> 0, done |-> FALSE]

Begin(l, k, a, p) ==
    /\ ret.tag # "Pending"
    /\ layer' = l
    /\ kind' = k
    /\ args' = a
    /\ prog' = p
    /\ trace' = <<>>
    /\ sensed' = <<>>
    /\ ret' = IF p = <<>> THEN Completed(k, <<>>) ELSE Pending
    /\ prev' = ret.tag
    /\ timerErrAt' = 0
    /\ pinErr' = "none"
    /\ blocked' = FALSE
    /\ dev' = DevFrameStart(dev)
    /\ UNCHANGED <<mdc, mdio, compose>>

\* mdio::Read::read(ctrl_bits) on bb::Mdio
MdioRead(ctrl_bits) ==
    Begin("mdio", "read",
          [phy_addr |-> 0, reg_addr |-> 0, ctrl_bits |-> ctrl_bits, data_bits |-> 0],
          Mdio_read(ctrl_bits))

\* mdio::Write::write(ctrl_bits, data_bits) on bb::Mdio
MdioWrite(ctrl_bits, data_bits) ==
    Begin("mdio", "write",
          [phy_addr |-> 0, reg_addr |-> 0, ctrl_bits |-> ctrl_bits, data_bits |-> data_bits],
          Mdio_write(ctrl_bits, data_bits))

\* mutant: the two addresses are passed in the wrong order
MiimRead_swapped(phy_addr, reg_addr) ==
    Begin("miim", "read",
          [phy_addr |-> phy_addr, reg_addr |-> reg_addr,
           ctrl_bits |-> read_ctrl_bits(reg_addr, phy_addr), data_bits |-> 0],
          Mdio_read(read_ctrl_bits(reg_addr, phy_addr)))

\* miim::Read::read(phy_addr, reg_addr), the blanket implementation
MiimRead(phy_addr, reg_addr) ==
    Begin("miim", "read",
          [phy_addr |-> phy_addr, reg_addr |-> reg_addr,
           ctrl_bits |-> read_ctrl_bits(phy_addr, reg_addr), data_bits |-> 0],
          Mdio_read(read_ctrl_bits(phy_addr, reg_addr)))

\* miim::Write::write(phy_addr, reg_addr, data), the blanket implementation
MiimWrite(phy_addr, reg_addr, data) ==
    Begin("miim", "write",
          [phy_addr |-> phy_addr, reg_addr |-> reg_addr,
           ctrl_bits |-> write_ctrl_bits(phy_addr, reg_addr), data_bits |-> data],
          Mdio_write(write_ctrl_bits(phy_addr, reg_addr), data))

-----------------------------------------------------------------------------
(* One collaborator operation of the call in progress.                     *)

Running == ret.tag = "Pending" /\ prog # <<>>

Next_op == Head(prog)

\* bookkeeping common to every operation that succeeds
Advance(bits) ==
    /\ trace' = Append(trace, Next_op)
    /\ prog' = Tail(prog)
    /\ ret' = After(Tail(prog), bits)
    /\ blocked' = FALSE
    /\ UNCHANGED <<layer, kind, args, prev, pinErr, compose>>

\* block!(self.clk.wait()) returns Ok
ClkWait ==
    /\ Running /\ Next_op = "clk.wait"
    /\ Advance(sensed)
    /\ UNCHANGED <<sensed, mdc, mdio, dev, timerErrAt>>

\* self.clk.wait() returns Err(WouldBlock): block! polls it again
ClkWouldBlock ==
    /\ Running /\ Next_op = "clk.wait"
    /\ blocked' = TRUE
    /\ UNCHANGED <<layer, kind, args, prog, trace, sensed, ret, mdc, mdio, dev, prev,
                   timerErrAt, pinErr, compose>>

\* block!(self.clk.wait()) returns Err(e); .ok() discards it
ClkWaitErr ==
    /\ Running /\ Next_op = "clk.wait"
    /\ Advance(sensed)
    /\ timerErrAt' = IF timerErrAt = 0 THEN Len(trace) + 1 ELSE timerErrAt
    /\ UNCHANGED <<sensed, mdc, mdio, dev>>

\* self.mdc.set_high()? succeeds
MdcSetHigh ==
    /\ Running /\ Next_op = "mdc.set_high"
    /\ Advance(sensed)
    /\ mdc' = "high"
    /\ dev' = IF mdc = "low" THEN DevClock(dev, mdio, kind) ELSE dev
    /\ UNCHANGED <<sensed, mdio, timerErrAt>>

\* self.mdc.set_low() succeeds
MdcSetLow ==
    /\ Running /\ Next_op = "mdc.set_low"
    /\ Advance(sensed)
    /\ mdc' = "low"
    /\ UNCHANGED <<sensed, mdio, dev, timerErrAt>>

\* self.mdio.set_high()? succeeds
MdioSetHigh ==
    /\ Running /\ Next_op = "mdio.set_high"
    /\ Advance(sensed)
    /\ mdio' = "high"
    /\ UNCHANGED <<sensed, mdc, dev, timerErrAt>>

\* self.mdio.set_low()? succeeds
MdioSetLow ==
    /\ Running /\ Next_op = "mdio.set_low"
    /\ Advance(sensed)
    /\ mdio' = "low"
    /\ UNCHANGED <<sensed, mdc, dev, timerErrAt>>

\* self.mdio.is_high()? returns Ok(level)
MdioIsHigh(level) ==
    /\ Running /\ Next_op = "mdio.is_high"
    /\ sensed' = Append(sensed, level)
    /\ Advance(Append(sensed, level))
    /\ UNCHANGED <<mdc, mdio, dev, timerErrAt>>

PinOps == {"mdc.set_high", "mdc.set_low", "mdio.set_high", "mdio.set_low", "mdio.is_high"}

\* a pin operation returns Err(e): the line keeps its level and ? returns
PinFail(e) ==
    /\ Running /\ Next_op \in PinOps
    /\ trace' = Append(trace, Next_op)
    /\ prog' = Question(Tail(prog), e).prog
    /\ ret' = Question(Tail(prog), e).ret
    /\ pinErr' = e
    /\ UNCHANGED <<layer, kind, args, prev, compose, sensed, mdc, mdio, dev, timerErrAt, blocked>>

-----------------------------------------------------------------------------
(* Spec: any sequence of calls through either trait, pins that may fail,   *)
(* the mock remote device on the data line, a timer that reports no error. *)

Init ==
    /\ layer = "none"
    /\ kind = "idle"
    /\ args = [phy_addr |-> 0, reg_addr |-> 0, ctrl_bits |-> 0, data_bits |-> 0]
    /\ prog = <<>>
    /\ trace = <<>>
    /\ sensed = <<>>
    /\ ret = Idle
    /\ mdc \in {"low", "high"}
    /\ mdio \in {"low", "high"}
    /\ dev \in {[reg |-> w, shift |-> 0, edges |-> 0] : w \in DataWords}
    /\ prev = "Idle"
    /\ timerErrAt = 0
    /\ pinErr = "none"
    /\ blocked = FALSE
    /\ compose = NoCompose

SenseDevice == MdioIsHigh(DevLevel)

Next ==
    \/ \E c \in CtrlWords : MdioRead(c)
    \/ \E c \in CtrlWords, d \in DataWords : MdioWrite(c, d)
    \/ \E a \in AddrPairs : MiimRead(a[1], a[2])
    \/ \E a \in AddrPairs, d \in DataWords : MiimWrite(a[1], a[2], d)
    \/ ClkWait
    \/ MdcSetHigh
    \/ MdcSetLow
    \/ MdioSetHigh
    \/ MdioSetLow
    \/ SenseDevice
    \/ \E e \in Errors : PinFail(e)

Spec == Init /\ [][Next]_vars

-----------------------------------------------------------------------------
(* SpecRead: one read on pins that do not fail, the data line returning    *)
(* any level at every sense (all 2^16 sequences of sensed levels).         *)

InitRead ==
    /\ Init
    /\ mdio = "low"
    /\ dev.reg = DataSample[1]

SenseAny == \E level \in BOOLEAN : MdioIsHigh(level)

NextRead ==
    \/ (ret.tag = "Idle" /\ MdioRead(CtrlSample[1]))
    \/ ClkWait
    \/ MdcSetHigh
    \/ MdcSetLow
    \/ MdioSetHigh
    \/ MdioSetLow
    \/ SenseAny

SpecRead == InitRead /\ [][NextRead]_vars

-----------------------------------------------------------------------------
(* SpecTimer: one call on pins that do not fail, with a timer whose wait   *)
(* may report an error.                                                    *)

InitTimer ==
    /\ Init
    /\ mdc = "low"
    /\ mdio = "low"
    /\ dev.reg = DataSample[1]

NextTimer ==
    \/ (ret.tag = "Idle" /\ \E c \in CtrlWords : MdioRead(c))
    \/ (ret.tag = "Idle" /\ \E c \in CtrlWords, d \in DataWords : MdioWrite(c, d))
    \/ ClkWait
    \/ ClkWaitErr
    \/ MdcSetHigh
    \/ MdcSetLow
    \/ MdioSetHigh
    \/ MdioSetLow
    \/ SenseDevice

SpecTimer == InitTimer /\ [][NextTimer]_vars

-----------------------------------------------------------------------------
(* SpecEcho: the round trip.  On pins that do not fail and with the clock  *)
(* line low at the start, every write(ctrl, data) is followed immediately  *)
(* by read(ctrl) against the mock remote device.  The read keeps the       *)
(* written word in args.data_bits (read does not use it) so that the       *)
(* result can be compared with it.                                         *)

InitEcho ==
    /\ Init
    /\ mdc = "low"

ReadBack ==
    /\ kind = "write" /\ ret.tag = "Ok"
    /\ Begin("mdio", "read", args, Mdio_read(args.ctrl_bits))

\* the sample data words and every word with a single bit set
EchoData == DataWords \cup {2 ^ k : k \in 0..15}

NextEcho ==
    \/ (kind # "write" /\ \E c \in CtrlWords, d \in EchoData : MdioWrite(c, d))
    \/ ReadBack
    \/ ClkWait
    \/ MdcSetHigh
    \/ MdcSetLow
    \/ MdioSetHigh
    \/ MdioSetLow
    \/ SenseDevice

SpecEcho == InitEcho /\ [][NextEcho]_vars

-----------------------------------------------------------------------------
(* SpecCtrl: the control-word composition on every pair of u8 addresses.   *)

InitCtrl ==
    /\ Init
    /\ mdc = "low"
    /\ mdio = "low"
    /\ dev.reg = DataSample[1]

ComposeCtrlBits ==
    /\ ret.tag = "Idle"
    /\ compose = NoCompose
    /\ \E d \in 0..(2 ^ 8 - 1), r \in 0..(2 ^ 8 - 1) :
           compose' = [phy_addr |-> d, reg_addr |-> r,
                       rd |-> read_ctrl_bits(d, r),
                       wr |-> write_ctrl_bits(d, r),
                       done |-> TRUE]
    /\ UNCHANGED <<layer, kind, args, prog, trace, sensed, ret, mdc, mdio, dev,
                   prev, timerErrAt, pinErr, blocked>>

NextCtrl == ComposeCtrlBits

SpecCtrl == InitCtrl /\ [][NextCtrl]_vars

-----------------------------------------------------------------------------
(* SpecClean: any sequence of calls through either trait on pins that      *)
(* never fail, the clock line low before the first call.                   *)

NextClean ==
    \/ \E c \in CtrlWords : MdioRead(c)
    \/ \E c \in CtrlWords, d \in DataWords : MdioWrite(c, d)
    \/ \E a \in AddrPairs : MiimRead(a[1], a[2])
    \/ \E a \in AddrPairs, d \in DataWords : MiimWrite(a[1], a[2], d)
    \/ ClkWait
    \/ MdcSetHigh
    \/ MdcSetLow
    \/ MdioSetHigh
    \/ MdioSetLow
    \/ SenseDevice

SpecClean == InitEcho /\ [][NextClean]_vars

-----------------------------------------------------------------------------
(* SpecLive: one call, pins that may fail, and a timer whose wait may      *)
(* answer WouldBlock any number of times.  Fairness: the timer is periodic, *)
(* so a wait that is polled for ever eventually finds the period elapsed;  *)
(* a pin operation returns (with Ok or with an error).  A wait answers Ok   *)
(* or WouldBlock here; a wait that answers an error returns like one that  *)
(* answers Ok (SpecTimer).                                                 *)

PinStep ==
    \/ MdcSetHigh
    \/ MdcSetLow
    \/ MdioSetHigh
    \/ MdioSetLow
    \/ SenseDevice
    \/ \E e \in Errors : PinFail(e)

NextLive ==
    \/ (ret.tag = "Idle" /\ \E c \in CtrlWords : MdioRead(c))
    \/ (ret.tag = "Idle" /\ \E c \in CtrlWords, d \in DataWords : MdioWrite(c, d))
    \/ ClkWait
    \/ ClkWouldBlock
    \/ PinStep

SpecLive ==
    InitTimer /\ [][NextLive]_vars /\ WF_vars(ClkWait) /\ WF_vars(PinStep)

-----------------------------------------------------------------------------
(* SpecBits: one call of write_u8(byte) or of write_bits(byte, count), for *)
(* every byte, on pins that do not fail.                                   *)

\* Mdio::write_u8(byte)
WriteU8(byte) ==
    Begin("bb", "write_u8", [byte |-> byte, count |-> 8], write_u8(byte))

\* Mdio::write_bits(byte, count)
WriteBits(byte, count) ==
    Begin("bb", "write_bits", [byte |-> byte, count |-> count], write_bits(byte, count))

NextBits ==
    \/ (ret.tag = "Idle" /\ \E b \in 0..(2 ^ 8 - 1) : WriteU8(b))
    \/ (ret.tag = "Idle" /\ \E b \in 0..(2 ^ 8 - 1), n \in 0..MaxCount : WriteBits(b, n))
    \/ ClkWait
    \/ MdcSetHigh
    \/ MdcSetLow
    \/ MdioSetHigh
    \/ MdioSetLow

SpecBits == InitCtrl /\ [][NextBits]_vars

-----------------------------------------------------------------------------
(* Vocabulary of the claims: the frames as the MDIO frame layout gives     *)
(* them, position by position, by arithmetic on the words.                 *)

Bit(w, i) == (w \div (2 ^ i)) % 2

Count(seq, op) == Cardinality({i \in DOMAIN seq : seq[i] = op})

LevelOp(b) == IF b = 1 THEN "mdio.set_high" ELSE "mdio.set_low"

\* the k-th operation (k = 1..4) of a clock pulse
PulseOp(k) ==
    CASE k = 1 -> "clk.wait"
      [] k = 2 -> "mdc.set_high"
      [] k = 3 -> "clk.wait"
      [] OTHER -> "mdc.set_low"

PreambleLen == 1 + 4 * 32
WriteLen == PreambleLen + 5 * 32
FirstSense == PreambleLen + 5 * 14 + 4 * 2 + 1
ReadLen == FirstSense - 1 + 5 * 16

\* the i-th operation of a frame: data line high, then 32 pulses
PreambleOp(i) == IF i = 1 THEN "mdio.set_high" ELSE PulseOp(((i - 2) % 4) + 1)

\* the i-th operation of a write frame of control word c and data word d
WriteOp(c, d, i) ==
    IF i <= PreambleLen THEN PreambleOp(i)
    ELSE LET j == (i - PreambleLen - 1) \div 5
             k == (i - PreambleLen - 1) % 5
         IN  IF k # 0 THEN PulseOp(k)
             ELSE IF j < 16 THEN LevelOp(Bit(c, 15 - j))
             ELSE LevelOp(Bit(d, 31 - j))

\* the i-th operation of a read frame of control word c, up to the first sense
ReadOp(c, i) ==
    IF i <= PreambleLen THEN PreambleOp(i)
    ELSE IF i <= PreambleLen + 5 * 14
    THEN LET j == (i - PreambleLen - 1) \div 5
             k == (i - PreambleLen - 1) % 5
         IN  IF k = 0 THEN LevelOp(Bit(c, 15 - j)) ELSE PulseOp(k)
    ELSE IF i < FirstSense THEN PulseOp(((i - PreambleLen - 5 * 14 - 1) % 4) + 1)
    ELSE "mdio.is_high"

-----------------------------------------------------------------------------
\* C1: every call, also one that follows a failed call, first sets the data
\* line high and then performs 32 complete clock pulses in which the data
\* line is not touched; only then is the first control bit driven.
C1_PreambleFirst ==
    kind # "idle" =>
        /\ \A i \in 1..Min(Len(trace), PreambleLen) : trace[i] = PreambleOp(i)
        /\ Len(trace) > PreambleLen =>
               trace[PreambleLen + 1] \in {"mdio.set_high", "mdio.set_low"}

\* a call that follows a failed one has driven its first control bit
C1_Witness == prev = "Err" /\ Len(trace) = PreambleLen + 1 /\ pinErr = "none"

\* C2: a write in which no pin operation fails performs, after the preamble,
\* for each of the 32 bits c[15..0], d[15..0] in that order, one set of the
\* data line to the bit's level and one clock pulse, and returns Ok; 64
\* pulses in all, and the data line is never sensed.
C2_WriteFrame ==
    kind = "write" =>
        /\ ret.tag = "Ok" =>
               /\ Len(trace) = WriteLen
               /\ \A i \in 1..WriteLen :
                      trace[i] = WriteOp(args.ctrl_bits, args.data_bits, i)
               /\ Count(trace, "mdc.set_high") = 64
               /\ Count(trace, "mdc.set_low") = 64
               /\ Count(trace, "mdio.is_high") = 0
               /\ sensed = <<>>
        /\ ret.tag = "Pending" => Len(trace) < WriteLen
        /\ (pinErr = "none" /\ Len(trace) >= WriteLen) => ret = Ok(0)

C2_Witness ==
    /\ kind = "write" /\ ret.tag = "Ok"
    /\ args.ctrl_bits = CtrlSample[2] /\ args.data_bits = DataSample[1]

\* C3: a read in which no pin operation fails drives, after the preamble,
\* the 14 levels c[15..2], each followed by one pulse, then performs 2 pulses
\* without touching the data line, and only then senses it for the first time.
C3_Turnaround ==
    (kind = "read" /\ ret.tag # "Err") =>
        /\ \A i \in 1..Min(Len(trace), FirstSense) : trace[i] = ReadOp(args.ctrl_bits, i)
        /\ ret.tag = "Ok" => Len(trace) >= FirstSense

\* a read of a control word with a turnaround bit set has made its first sense
C3_Witness ==
    /\ kind = "read" /\ ret.tag = "Pending"
    /\ Len(trace) = FirstSense
    /\ args.ctrl_bits % 4 # 0

\* C4: a read in which no pin operation fails senses the data line 16 times,
\* each time with the clock line low and followed by one clock pulse, and
\* returns the word whose bit 15-i is the i-th level sensed; the frame has 64
\* pulses.
C4_ReadWord ==
    /\ (trace # <<>> /\ trace[Len(trace)] = "mdio.is_high") => mdc = "low"
    /\ (kind = "read" /\ ret.tag = "Ok") =>
           /\ Len(trace) = ReadLen
           /\ Len(sensed) = 16
           /\ Count(trace, "mdio.is_high") = 16
           /\ \A i \in 0..15 :
                  /\ trace[FirstSense + 5 * i] = "mdio.is_high"
                  /\ \A k \in 1..4 : trace[FirstSense + 5 * i + k] = PulseOp(k)
                  /\ Bit(ret.val, 15 - i) = (IF sensed[i + 1] THEN 1 ELSE 0)
           /\ ret.val \in 0..(2 ^ 16 - 1)
           /\ Count(trace, "mdc.set_high") = 64
           /\ Count(trace, "mdc.set_low") = 64

\* a read has returned 0xB00F
C4_Witness == kind = "read" /\ ret.tag = "Ok" /\ ret.val = 45071 /\ sensed[1] /\ ~sensed[2]

\* C5: when a pin operation fails, the call returns that pin's error as it
\* is, through either trait, and performs no operation after the failed one.
C5_Returned ==
    /\ pinErr # "none" =>
           /\ ret = Err(pinErr)
           /\ prog = <<>>
           /\ trace # <<>> /\ trace[Len(trace)] \in PinOps
    /\ ret.tag = "Err" => (pinErr \in Errors /\ ret.err = pinErr)

C5_NoFurtherOp ==
    pinErr # "none" => (trace' = trace \/ (trace' = <<>> /\ pinErr' = "none"))

C5_ErrorPropagation == [](C5_Returned) /\ [][C5_NoFurtherOp]_vars

\* a register-level read has returned the error of a failed sense
C5_Witness ==
    /\ layer = "miim" /\ kind = "read"
    /\ ret = Err("E2")
    /\ trace[Len(trace)] = "mdio.is_high"
    /\ Len(sensed) = 3

C7_CtrlBits ==
    compose.done =>
        /\ compose.rd = 24576 + (compose.phy_addr % 32) * 128 + (compose.reg_addr % 32) * 4
        /\ compose.wr = 20482 + (compose.phy_addr % 32) * 128 + (compose.reg_addr % 32) * 4
        /\ (compose.phy_addr = 1 /\ compose.reg_addr = 2) =>
               (compose.rd = 24712 /\ compose.wr = 20618)
        /\ compose.rd \div (2 ^ 12) = 6 /\ compose.rd % 4 = 0
        /\ compose.wr \div (2 ^ 12) = 5 /\ compose.wr % 4 = 2

C7_Witness ==
    /\ compose.done /\ compose.phy_addr = 1 /\ compose.reg_addr = 2
    /\ compose.rd = 24712 /\ compose.wr = 20618

\* C8: for addresses below 32 the read and the write control word differ only
\* in bits 13..12 and 1..0, and their other bits are the frame layout: start
\* 01 in bits 15..14, the device address in bits 11..7, the register address
\* in bits 6..2.
C8_ReadWriteDiffer ==
    (compose.done /\ compose.phy_addr < 32 /\ compose.reg_addr < 32) =>
        /\ \A i \in (0..15) \ {0, 1, 12, 13} : Bit(compose.rd, i) = Bit(compose.wr, i)
        /\ \A w \in {compose.rd, compose.wr} :
               /\ Bit(w, 15) = 0 /\ Bit(w, 14) = 1
               /\ (w \div (2 ^ 7)) % 32 = compose.phy_addr
               /\ (w \div (2 ^ 2)) % 32 = compose.reg_addr

C8_Witness ==
    /\ compose.done /\ compose.phy_addr = 21 /\ compose.reg_addr = 10
    /\ compose.rd # compose.wr

\* C9: the control words of any two u8 addresses are those of their low 5
\* bits: bits 7..5 of an address never reach the control word.
C9_Masking ==
    compose.done =>
        /\ compose.rd = read_ctrl_bits(compose.phy_addr % 32, compose.reg_addr % 32)
        /\ compose.wr = write_ctrl_bits(compose.phy_addr % 32, compose.reg_addr % 32)

C9_Witness ==
    /\ compose.done /\ compose.phy_addr = 255 /\ compose.reg_addr = 224
    /\ compose.rd = read_ctrl_bits(31, 0)

\* C10: a read(ctrl) that follows a write(ctrl, data) immediately, against
\* the mock remote device, returns data.
C10_RoundTrip ==
    (kind = "read" /\ ret.tag = "Ok") => (prev = "Ok" /\ ret.val = args.data_bits)

C10_Witness ==
    /\ kind = "read" /\ ret.tag = "Ok"
    /\ args.data_bits = DataSample[2] /\ ret.val = DataSample[2]

\* the levels of the claimed and of the actual bit order of 0b10110000
Claimed176 == <<1, 1, 0, 1, 1, 0, 0, 0>>
MsbFirst176 == <<1, 0, 1, 1, 0, 0, 0, 0>>

\* the number of bits a call of write_u8 or write_bits has to emit
BitsToEmit == IF kind = "write_u8" THEN 8 ELSE Min(args.count, 8)

\* the call drove the first BitsToEmit of the given levels, a pulse after each
DroveLevels(levels) ==
    /\ Len(trace) = 5 * BitsToEmit
    /\ \A j \in 0..(BitsToEmit - 1) :
           /\ trace[5 * j + 1] = LevelOp(levels[j + 1])
           /\ \A k \in 1..4 : trace[5 * j + 1 + k] = PulseOp(k)

\* C11 as stated: write_u8(0b10110000), and write_bits for the bits it emits,
\* drives high, high, low, high, high, low, low, low, a pulse after each.
C11_ClaimedOrder ==
    (kind \in {"write_u8", "write_bits"} /\ args.byte = 176 /\ ret.tag = "Ok") =>
        DroveLevels(Claimed176)

\* C11 as amended: write_u8(0b10110000), and write_bits for the bits it emits,
\* drives high, low, high, high, low, low, low, low (bit 7 down to bit 0), a
\* pulse after each.
C11_MsbFirstOrder ==
    (kind \in {"write_u8", "write_bits"} /\ args.byte = 176 /\ ret.tag = "Ok") =>
        DroveLevels(MsbFirst176)

C11_Witness ==
    /\ kind = "write_u8" /\ args.byte = 176 /\ ret.tag = "Ok"
    /\ Len(trace) = 40

\* C19: write_bits(byte, count) drives the min(count, 8) most significant
\* bits of byte, most significant first, a pulse after each, and nothing
\* else: nothing at all for count 0, what write_u8(byte) does for count 8 and
\* for every larger count; it always returns Ok.
C19_WriteBits ==
    kind = "write_bits" =>
        /\ ret.tag \in {"Pending", "Ok"}
        /\ ret.tag = "Pending" => Len(trace) < 5 * Min(args.count, 8)
        /\ ret.tag = "Ok" =>
               /\ DroveLevels([j \in 1..8 |-> Bit(args.byte, 8 - j)])
               /\ args.count = 0 => trace = <<>>
               /\ args.count >= 8 => trace = write_u8(args.byte)
               /\ Count(trace, "mdc.set_high") = Min(args.count, 8)

C19_Witness ==
    /\ kind = "write_bits" /\ args.count = 9 /\ args.byte = 176
    /\ ret.tag = "Ok" /\ Len(trace) = 40

-----------------------------------------------------------------------------
IsClockOp(op) == op \in {"clk.wait", "mdc.set_high", "mdc.set_low"}

DataLineOps == {"mdio.set_high", "mdio.set_low", "mdio.is_high"}

IsPrefix(s1, s2) == Len(s1) <= Len(s2) /\ s1 = SubSeq(s2, 1, Len(s1))

\* the word whose bit 15-i is the i-th level sensed
IsWordOf(w, bits) ==
    /\ w \in 0..(2 ^ 16 - 1)
    /\ Len(bits) = 16
    /\ \A i \in 0..15 : Bit(w, 15 - i) = (IF bits[i + 1] THEN 1 ELSE 0)

\* C12: a register-level call performs exactly the operations of the
\* low-level call with the composed control word, read(read_ctrl_bits(d, r))
\* or write(write_ctrl_bits(d, r), data), and returns what that call returns:
\* the word sensed, Ok, or the failed pin's error.
C12_MiimDelegates ==
    layer = "miim" =>
        LET frame == IF kind = "read"
                     THEN Mdio_read(read_ctrl_bits(args.phy_addr, args.reg_addr))
                     ELSE Mdio_write(write_ctrl_bits(args.phy_addr, args.reg_addr),
                                     args.data_bits)
        IN  /\ IsPrefix(trace, frame)
            /\ ret.tag # "Err" => trace \o prog = frame
            /\ ret.tag = "Err" => ret = Err(pinErr)
            /\ ret.tag = "Ok" =>
                   /\ trace = frame
                   /\ kind = "read" => IsWordOf(ret.val, sensed)
                   /\ kind = "write" => ret = Ok(0)

C12_Witness ==
    /\ layer = "miim" /\ kind = "read" /\ ret.tag = "Ok"
    /\ args.phy_addr = 1 /\ args.reg_addr = 2 /\ ret.val = DataSample[1]

\* C13: within a call the timer and clock-line operations are wait, clock
\* high, wait, clock low, over and over; every data-line operation after the
\* first follows a completed pulse and is followed by one pulse; a call that
\* returns Ok has made 128 waits and 64 pulses and leaves the clock line low.
C13_Pulses ==
    kind \in {"read", "write"} =>
        LET clock == SelectSeq(trace, IsClockOp)
        IN  /\ \A i \in 1..Len(clock) : clock[i] = PulseOp(((i - 1) % 4) + 1)
            /\ \A i \in 2..Len(trace) :
                   trace[i] \in DataLineOps =>
                       /\ trace[i - 1] = "mdc.set_low"
                       /\ \A k \in 1..4 : i + k <= Len(trace) => trace[i + k] = PulseOp(k)
            /\ ret.tag = "Ok" =>
                   /\ Count(trace, "clk.wait") = 128
                   /\ Count(trace, "mdc.set_high") = 64
                   /\ Count(trace, "mdc.set_low") = 64
                   /\ mdc = "low"

\* a call that followed a failed call has returned Ok
C13_Witness ==
    /\ kind = "write" /\ ret.tag = "Ok" /\ prev = "Err"
    /\ Count(trace, "clk.wait") = 128

\* C14: during the turnaround and the 16 sensed bits of a read the transport
\* does not hold the data line at a driven level.  The pins offer set_high
\* and set_low only; on an open-drain pin (the one of the crate's example) a
\* line set high is released, so the most the transport can do is leave the
\* line high: the claim is stated as "not driven low".
C14_LineReleased ==
    (kind = "read" /\ pinErr = "none" /\ Len(trace) >= PreambleLen + 5 * 14) =>
        mdio # "low"

\* C16: with pins that never fail and the clock line low before the first
\* call, every set and every sense of the data line happens while the clock
\* line is low, and the level of the data line never changes while the clock
\* line is high.
C16_DataOpClockLow ==
    (trace # <<>> /\ trace[Len(trace)] \in DataLineOps) => mdc = "low"

C16_DataStableWhileHigh == (mdio' # mdio) => (mdc = "low" /\ mdc' = "low")

C16_ClockLowAtData == [](C16_DataOpClockLow) /\ [][C16_DataStableWhileHigh]_vars

\* a second call, after a call that returned Ok, drives a low control bit
C16_Witness ==
    /\ prev = "Ok" /\ Len(trace) > PreambleLen
    /\ trace[Len(trace)] = "mdio.set_low" /\ mdio = "low"

\* C17: the operations and the result of a read do not depend on the 2 least
\* significant bits of its control word: the operations are those of a read
\* of any control word with the same upper 14 bits, and the value returned is
\* the word sensed.
C17_LowBitsUnused ==
    kind = "read" =>
        /\ \A t \in 0..3 :
               LET frame == Mdio_read((args.ctrl_bits \div 4) * 4 + t)
               IN  /\ IsPrefix(trace, frame)
                   /\ ret.tag # "Err" => trace \o prog = frame
        /\ ret.tag = "Ok" => IsWordOf(ret.val, sensed)
        /\ ret.tag = "Err" => ret = Err(pinErr)

C17_Witness ==
    /\ kind = "read" /\ ret.tag = "Ok"
    /\ args.ctrl_bits % 4 = 2 /\ ret.val = DataSample[2]

\* the control words of all pairs of addresses below 32
ReadWords == [d \in 0..31, r \in 0..31 |-> read_ctrl_bits(d, r)]
WriteWords == [d \in 0..31, r \in 0..31 |-> write_ctrl_bits(d, r)]

\* C18: for addresses below 32, bits 11..7 of both control words are the
\* device address and bits 6..2 the register address; no other pair of
\* addresses below 32 gives the same read or the same write control word, and
\* no read control word is a write control word.
C18_Injective ==
    (compose.done /\ compose.phy_addr < 32 /\ compose.reg_addr < 32) =>
        /\ (compose.rd \div 128) % 32 = compose.phy_addr
        /\ (compose.wr \div 128) % 32 = compose.phy_addr
        /\ (compose.rd \div 4) % 32 = compose.reg_addr
        /\ (compose.wr \div 4) % 32 = compose.reg_addr
        /\ \A d \in 0..31, r \in 0..31 :
               /\ ReadWords[d, r] = compose.rd =>
                      (d = compose.phy_addr /\ r = compose.reg_addr)
               /\ WriteWords[d, r] = compose.wr =>
                      (d = compose.phy_addr /\ r = compose.reg_addr)
               /\ WriteWords[d, r] # compose.rd
               /\ ReadWords[d, r] # compose.wr

C18_Witness ==
    /\ compose.done /\ compose.phy_addr = 16 /\ compose.reg_addr = 31
    /\ (compose.rd \div 128) % 32 = 16

\* C15: with a timer that eventually reports every period elapsed, a call
\* that has begun returns Ok or a pin's error, after at most 128 waits; while
\* a wait has not returned the call performs no operation: the only way on
\* is the return of that wait.
C15_Terminates == (ret.tag = "Pending") ~> (ret.tag \in {"Ok", "Err"})

C15_Waits ==
    /\ Count(trace, "clk.wait") <= 128
    /\ ret.tag = "Err" => (pinErr \in Errors /\ ret.err = pinErr)
    /\ blocked => (ret.tag = "Pending" /\ prog # <<>> /\ Head(prog) = "clk.wait")

C15_NothingWhileBlocked ==
    (ret.tag = "Pending" /\ prog # <<>> /\ Head(prog) = "clk.wait") =>
        \/ UNCHANGED <<trace, prog, ret, mdc, mdio, sensed>>
        \/ (trace' = Append(trace, "clk.wait") /\ UNCHANGED <<mdc, mdio, sensed>>)

C15_RunsToCompletion ==
    C15_Terminates /\ [](C15_Waits) /\ [][C15_NothingWhileBlocked]_vars

\* the last wait of a read is blocking
C15_Witness ==
    /\ kind = "read" /\ blocked
    /\ Count(trace, "clk.wait") = 127
    /\ Len(sensed) = 16

====
